---- MODULE Spec2Model ----
(***************************************************************************)
(* Model of the asynchronous logger of package log (src/log/log.go):       *)
(* Logger instances with their bounded message channel, buffer pool and    *)
(* dispatch goroutine (run); Output, Close; and the process-wide default   *)
(* instance defLoger with SetLogFile / SetLevel / Close.                   *)
(***************************************************************************)
EXTENDS Naturals, Sequences, FiniteSets, TLC

(* ------------------------------ bounds -------------------------------- *)
\* goroutines that may be inside Output at the same time
NumProducers == 2
\* goroutines that call l.Close() on the same Logger at the same time
NumClosers == 2
\* goroutines that call Increment / Decrement on the same key at the same time
NumClients == 2
\* largest initial counter value and largest amount passed to Increment / Decrement
MaxVal == 2
\* calls of Increment / Decrement that one goroutine makes
MaxCallsEach == 1
\* total number of Output calls made
MaxEmits == 2
\* number of Logger instances the process constructs (1 = the initial default)
MaxLoggers == 2
\* number of Close / SetLogFile / SetLevel calls of the controlling goroutine
MaxCtlOps == 2
\* capacity of l.msg; stands for the 1024 of make(chan []byte, 1024)
QueueCap == 1
\* capacity of the free list; stands for maxBufPoolSize = 16
PoolCap == 1

(* ------------------------- program constants -------------------------- *)
LevelInfo == 1
LevelDebug == 2
LevelWarn == 4
LevelError == 8

\* Go's | on non-negative ints
RECURSIVE BitOr(_, _)
BitOr(a, b) ==
    IF a = 0 THEN b
    ELSE IF b = 0 THEN a
    ELSE (IF (a % 2) + (b % 2) > 0 THEN 1 ELSE 0) + 2 * BitOr(a \div 2, b \div 2)

\* Go's & on non-negative ints
RECURSIVE BitAnd(_, _)
BitAnd(a, b) ==
    IF a = 0 \/ b = 0 THEN 0
    ELSE ((a % 2) * (b % 2)) + 2 * BitAnd(a \div 2, b \div 2)

LevelAll == BitOr(BitOr(LevelInfo, LevelDebug), BitOr(LevelWarn, LevelError))

Severities == {LevelInfo, LevelDebug, LevelWarn, LevelError}
Masks == 0..LevelAll
Ids == 1..MaxLoggers
FileArgs == {"empty", "good", "bad"}
Closers == 1..NumClosers
Clients == 1..NumClients

VARIABLES
    defLoger,   \* the package variable: id of the default Logger
    nLoggers,   \* Logger instances constructed so far (ids 1..nLoggers)
    level,      \* l.level
    closed,     \* l.closed
    quit,       \* l.quit: "open", "closed" (close(l.quit) done) or "nil"
    msg,        \* l.msg: the buffered channel's contents
    bufs,       \* l.bufs: the free list
    wg,         \* l.wg: the WaitGroup counter
    run,        \* the goroutine started by New: [pc, msg, started]
    handler,    \* l.handler as the Logger sees it: the calls made to it
    calls,      \* the Output calls in progress: [rec, l, pc, buf]
    ctl,        \* the controlling goroutine: position inside Close / SetLogFile
    nCalls,     \* Output calls made so far
    nextBuf,    \* buffers allocated so far by make([]byte, 0, 1024)
    hist,       \* history, per Logger: see NewHist
    panicked,   \* a goroutine panicked: the process is gone
    closers,    \* goroutines calling l.Close() at the same time: see IdleCloser
    store,      \* the Redis value of the counter key: [present, val, base, added]
    clients,    \* the goroutines calling Increment / Decrement on that key
    rendered    \* the last record Output rendered: [ver, sev, text]

vars == <<defLoger, nLoggers, level, closed, quit, msg, bufs, wg, run, handler,
          calls, ctl, nCalls, nextBuf, hist, panicked, closers, store, clients,
          rendered>>

\* what the single-controller logger actions leave alone
extraVars == <<closers, store, clients, rendered>>

logVars == <<level, closed, quit, msg, bufs, wg, run, handler>>

\* a buffer: its backing array's identity and the records rendered into it
NoBuf == [id |-> 0, data |-> <<>>]
RunThread(l) == <<"run", l>>
EmitThread(r) == <<"emit", r>>

\* a Handler as the Logger sees it: the buffers passed to Write, who called
\* Write, the Write calls in progress, the index of the first Write that
\* returned an error (0: none), the Close calls received and the number of
\* Write calls received before the first Close
NewHandler ==
    [writes |-> <<>>, writers |-> {}, busy |-> 0, errAt |-> 0, closes |-> 0,
     closedAt |-> 0]

\* history of a Logger: the records sent on l.msg in order, the records whose
\* Output call passed the filter, Len(enq) and len(l.msg) when close(l.quit)
\* ran, the number of close(l.quit) executed, the Close calls entered, whether
\* a Close call that went through shutdown has returned, the SetLevel calls
\* made on it and the argument of the last one, whether one was made after its
\* run had returned, and the buffers that putBuf did not keep
NewHist ==
    [enq |-> <<>>, passed |-> {}, atQuit |-> 0, queuedAtQuit |-> 0, signals |-> 0,
     closeCalls |-> 0, closeRet |-> FALSE, levelSet |-> 0, lastSet |-> 0, setAfterExit |-> FALSE,
     dropped |-> {}]

\* a goroutine that is not inside l.Close(): the Logger of its last call, the
\* calls it made, and whether one returned while run had not
IdleCloser == [pc |-> "idle", l |-> 0, calls |-> 0, early |-> FALSE]

\* a goroutine that is not inside Increment / Decrement: the amount and the
\* result of its last call (the int64 that the call converts to uint64), the
\* value it read, whether the call returned ErrCacheMiss, and the calls it made
IdleClient ==
    [pc |-> "idle", op |-> "none", n |-> 0, cur |-> 0, ret |-> 0, miss |-> FALSE,
     done |-> 0]

\* the counter key is not in Redis; base is the value it was set to and added
\* the sum of the amounts of the Increment calls that returned without error
NoKey == [present |-> FALSE, val |-> 0, base |-> 0, added |-> 0]

(* -------------------------------- New --------------------------------- *)
\* l.wg.Add(1); go l.run()
SpawnRun == [pc |-> "select", msg |-> NoBuf, started |-> 1]

\* a New that enables every severity
NewLevelAll == LevelAll

\* New: l.level = LevelInfo
NewLevel == LevelInfo

\* New(handler) building instance l
New(l) ==
    /\ level' = [level EXCEPT ![l] = NewLevel]
    /\ handler' = [handler EXCEPT ![l] = NewHandler]
    /\ quit' = [quit EXCEPT ![l] = "open"]
    /\ closed' = [closed EXCEPT ![l] = FALSE]
    /\ msg' = [msg EXCEPT ![l] = <<>>]
    /\ bufs' = [bufs EXCEPT ![l] = <<>>]
    /\ wg' = [wg EXCEPT ![l] = 1]
    /\ run' = [run EXCEPT ![l] = SpawnRun]

\* var defLoger = NewDefault(newStdHandler()), before init() has run
Init ==
    /\ defLoger = 1
    /\ nLoggers = 1
    /\ level = [l \in Ids |-> IF l = 1 THEN NewLevel ELSE 0]
    /\ closed = [l \in Ids |-> FALSE]
    /\ quit = [l \in Ids |-> IF l = 1 THEN "open" ELSE "nil"]
    /\ msg = [l \in Ids |-> <<>>]
    /\ bufs = [l \in Ids |-> <<>>]
    /\ wg = [l \in Ids |-> IF l = 1 THEN 1 ELSE 0]
    /\ run = [l \in Ids |-> IF l = 1 THEN SpawnRun
                            ELSE [pc |-> "none", msg |-> NoBuf, started |-> 0]]
    /\ handler = [l \in Ids |-> NewHandler]
    /\ calls = {}
    /\ ctl = [pc |-> "init", op |-> "none", l |-> 0, arg |-> "none", ops |-> 0]
    /\ nCalls = 0
    /\ nextBuf = 0
    /\ hist = [l \in Ids |-> NewHist]
    /\ panicked = FALSE
    /\ closers = [t \in Closers |-> IdleCloser]
    /\ store = NoKey
    /\ clients = [k \in Clients |-> IdleClient]
    /\ rendered = [ver |-> 0, sev |-> 0, text |-> <<>>]

\* the process is alive and main is running (init() is over)
Live == ~panicked /\ ctl.pc # "init"

(* ------------------------------- pool --------------------------------- *)
\* popBuf: the buffer handed out
PopBufResult(l) ==
    IF Len(bufs[l]) = 0 THEN [id |-> nextBuf + 1, data |-> <<>>]
    ELSE bufs[l][Len(bufs[l])]

\* a popBuf that leaves the buffer it hands out on the free list
PopBufRestKeep(l) == bufs[l]

\* popBuf: the free list afterwards
PopBufRest(l) ==
    IF Len(bufs[l]) = 0 THEN bufs[l] ELSE SubSeq(bufs[l], 1, Len(bufs[l]) - 1)

\* a putBuf that keeps every buffer
PutBufKeepsAlways(l) == TRUE

\* putBuf: if len(l.bufs) < maxBufPoolSize
PutBufKeeps(l) == Len(bufs[l]) < PoolCap

\* a putBuf that forgets buf = buf[0:0]
PutBufNoReset(l, buf) ==
    IF PutBufKeeps(l) THEN Append(bufs[l], buf) ELSE bufs[l]

\* putBuf: the free list afterwards
PutBuf(l, buf) ==
    IF PutBufKeeps(l) THEN Append(bufs[l], [buf EXCEPT !.data = <<>>])
    ELSE bufs[l]

(* ------------------------------ Output -------------------------------- *)
\* a filter that compares the levels as ordinals
PassesOrdinal(L, S) == L >= S

\* the filter of Output: if l.level&level != level { return }
Passes(L, S) == BitAnd(L, S) = S

\* a goroutine calls Debug/Info/Warn/Error: defLoger.Output(2, S, ...)
Emit(S) ==
    /\ UNCHANGED extraVars
    /\ Live
    /\ Cardinality(calls) < NumProducers
    /\ nCalls < MaxEmits
    /\ nCalls' = nCalls + 1
    /\ IF Passes(level[defLoger], S)
       THEN /\ calls' = calls \cup {[rec |-> nCalls + 1, l |-> defLoger, pc |-> "pop",
                                     buf |-> NoBuf]}
            /\ hist' = [hist EXCEPT ![defLoger].passed = @ \cup {nCalls + 1}]
       ELSE UNCHANGED <<calls, hist>>
    /\ UNCHANGED <<defLoger, nLoggers, logVars, ctl, nextBuf, panicked>>

\* buf := l.popBuf(), then the record is rendered into buf
Pop(c) ==
    /\ UNCHANGED extraVars
    /\ Live
    /\ c.pc = "pop"
    /\ LET b == PopBufResult(c.l)
       IN /\ calls' = (calls \ {c}) \cup
                        {[c EXCEPT !.pc = "send", !.buf = [b EXCEPT !.data = Append(b.data, c.rec)]]}
          /\ nextBuf' = IF Len(bufs[c.l]) = 0 THEN nextBuf + 1 ELSE nextBuf
          /\ bufs' = [bufs EXCEPT ![c.l] = PopBufRest(c.l)]
    /\ UNCHANGED <<defLoger, nLoggers, level, closed, quit, msg, wg, run, handler,
                   ctl, nCalls, hist, panicked>>

\* an Output that gives up when the channel is full
SendOrDrop(c) ==
    /\ UNCHANGED extraVars
    /\ Live
    /\ c.pc = "send"
    /\ IF Len(msg[c.l]) < QueueCap
       THEN /\ msg' = [msg EXCEPT ![c.l] = Append(msg[c.l], c.buf)]
            /\ hist' = [hist EXCEPT ![c.l].enq = Append(@, c.rec)]
       ELSE UNCHANGED <<msg, hist>>
    /\ calls' = calls \ {c}
    /\ UNCHANGED <<defLoger, nLoggers, level, closed, quit, bufs, wg, run, handler,
                   ctl, nCalls, nextBuf, panicked>>

\* an Output that writes to the Handler itself when the channel is full
SendOrWrite(c) ==
    /\ UNCHANGED extraVars
    /\ Live
    /\ c.pc = "send"
    /\ IF Len(msg[c.l]) < QueueCap
       THEN /\ msg' = [msg EXCEPT ![c.l] = Append(msg[c.l], c.buf)]
            /\ hist' = [hist EXCEPT ![c.l].enq = Append(@, c.rec)]
            /\ UNCHANGED handler
       ELSE /\ handler' = [handler EXCEPT ![c.l].writers = @ \cup {EmitThread(c.rec)}]
            /\ UNCHANGED <<msg, hist>>
    /\ calls' = calls \ {c}
    /\ UNCHANGED <<defLoger, nLoggers, level, closed, quit, bufs, wg, run,
                   ctl, nCalls, nextBuf, panicked>>

\* l.msg <- buf: blocks while the channel is full; then Output returns
Send(c) ==
    /\ UNCHANGED extraVars
    /\ Live
    /\ c.pc = "send"
    /\ Len(msg[c.l]) < QueueCap
    /\ msg' = [msg EXCEPT ![c.l] = Append(msg[c.l], c.buf)]
    /\ hist' = [hist EXCEPT ![c.l].enq = Append(@, c.rec)]
    /\ calls' = calls \ {c}
    /\ UNCHANGED <<defLoger, nLoggers, level, closed, quit, bufs, wg, run, handler,
                   ctl, nCalls, nextBuf, panicked>>

(* -------------------------------- run --------------------------------- *)
\* case msg := <-l.msg: l.handler.Write(msg) is entered
RunRecv(l) ==
    /\ UNCHANGED extraVars
    /\ Live
    /\ run[l].pc = "select"
    /\ Len(msg[l]) > 0
    /\ msg' = [msg EXCEPT ![l] = Tail(msg[l])]
    /\ run' = [run EXCEPT ![l].pc = "write", ![l].msg = Head(msg[l])]
    /\ handler' = [handler EXCEPT ![l].writes = Append(@, Head(msg[l])),
                                  ![l].writers = @ \cup {RunThread(l)},
                                  ![l].busy = @ + 1]
    /\ UNCHANGED <<defLoger, nLoggers, level, closed, quit, bufs, wg, calls, ctl,
                   nCalls, nextBuf, hist, panicked>>

\* a run that returns when Handler.Write reports an error
AfterWriteStop(l, err) == [run[l] EXCEPT !.pc = IF err THEN "done" ELSE "putBuf"]

\* what run does with the error Handler.Write returned: nothing
AfterWrite(l, err) == [run[l] EXCEPT !.pc = "putBuf"]

\* l.handler.Write(msg) returns, with or without an error
RunWriteRet(l, err) ==
    /\ UNCHANGED extraVars
    /\ Live
    /\ run[l].pc = "write"
    /\ handler' = [handler EXCEPT ![l].busy = @ - 1,
                                  ![l].errAt = IF err /\ @ = 0
                                               THEN Len(handler[l].writes) ELSE @]
    /\ run' = [run EXCEPT ![l] = AfterWrite(l, err)]
    /\ wg' = IF AfterWrite(l, err).pc = "done" THEN [wg EXCEPT ![l] = @ - 1] ELSE wg
    /\ UNCHANGED <<defLoger, nLoggers, level, closed, quit, msg, bufs, calls, ctl,
                   nCalls, nextBuf, hist, panicked>>

\* l.putBuf(msg)
RunPutBuf(l) ==
    /\ UNCHANGED extraVars
    /\ Live
    /\ run[l].pc = "putBuf"
    /\ bufs' = [bufs EXCEPT ![l] = PutBuf(l, run[l].msg)]
    /\ hist' = [hist EXCEPT ![l].dropped =
                    IF PutBufKeeps(l) THEN @ ELSE @ \cup {run[l].msg.id}]
    /\ run' = [run EXCEPT ![l].pc = "select", ![l].msg = NoBuf]
    /\ UNCHANGED <<defLoger, nLoggers, level, closed, quit, msg, wg, handler, calls,
                   ctl, nCalls, nextBuf, panicked>>

\* a run that never returns
QuitExitsNever(l) == FALSE

\* a run that returns as soon as it sees the quit signal
QuitExitsAtOnce(l) == TRUE

\* case <-l.quit: if len(l.msg) == 0 { return }
QuitExits(l) == Len(msg[l]) = 0

\* a select whose quit case is ready whether or not l.quit was closed
QuitReadyAlways(l) == TRUE

\* case <-l.quit: a receive from l.quit is ready once l.quit has been closed
QuitReady(l) == quit[l] = "closed"

\* case <-l.quit (ready once l.quit has been closed); defer l.wg.Done()
RunQuit(l) ==
    /\ UNCHANGED extraVars
    /\ Live
    /\ run[l].pc = "select"
    /\ QuitReady(l)
    /\ IF QuitExits(l)
       THEN /\ run' = [run EXCEPT ![l].pc = "done"]
            /\ wg' = [wg EXCEPT ![l] = @ - 1]
       ELSE UNCHANGED <<run, wg>>
    /\ UNCHANGED <<defLoger, nLoggers, level, closed, quit, msg, bufs, handler, calls,
                   ctl, nCalls, nextBuf, hist, panicked>>

(* ------------------------------- Close -------------------------------- *)
\* a Close without its guard
CloseNeverAlready(l) == FALSE

\* if l.closed { return }
CloseAlready(l) == closed[l]

\* a Close that does not wait for run
WaitSkipped(l) == TRUE

\* l.wg.Wait() returns
WaitDone(l) == wg[l] = 0

\* where the controller goes when l.Close() returns
CloseReturn ==
    IF ctl.op = "SetLogFile" THEN [ctl EXCEPT !.pc = "s_handler"]
    ELSE [ctl EXCEPT !.pc = "idle", !.op = "none", !.l = 0]

\* Close(): defLoger.Close() is entered
CallClose ==
    /\ UNCHANGED extraVars
    /\ Live
    /\ ctl.pc = "idle"
    /\ ctl.ops < MaxCtlOps
    /\ ctl' = [ctl EXCEPT !.pc = "c_enter", !.op = "Close", !.l = defLoger,
                          !.ops = @ + 1]
    /\ UNCHANGED <<defLoger, nLoggers, logVars, calls, nCalls, nextBuf, hist,
                   panicked>>

\* l.Close() up to close(l.quit): if l.closed { return }; l.closed = true;
\* close(l.quit), which panics on a closed or nil channel
CloseSignal ==
    /\ UNCHANGED extraVars
    /\ Live
    /\ ctl.pc = "c_enter"
    /\ LET l == ctl.l
       IN IF CloseAlready(l)
          THEN /\ ctl' = CloseReturn
               /\ hist' = [hist EXCEPT ![l].closeCalls = @ + 1]
               /\ UNCHANGED <<closed, quit, panicked>>
          ELSE /\ closed' = [closed EXCEPT ![l] = TRUE]
               /\ IF quit[l] = "open"
                  THEN /\ quit' = [quit EXCEPT ![l] = "closed"]
                       /\ hist' = [hist EXCEPT ![l].closeCalls = @ + 1,
                                               ![l].signals = @ + 1,
                                               ![l].atQuit = Len(hist[l].enq),
                                               ![l].queuedAtQuit = Len(msg[l])]
                       /\ ctl' = [ctl EXCEPT !.pc = "c_wait"]
                       /\ UNCHANGED panicked
                  ELSE /\ panicked' = TRUE
                       /\ hist' = [hist EXCEPT ![l].closeCalls = @ + 1]
                       /\ UNCHANGED <<quit, ctl>>
    /\ UNCHANGED <<defLoger, nLoggers, level, msg, bufs, wg, run, handler,
                   calls, nCalls, nextBuf>>

\* the rest of l.Close(): l.wg.Wait(); l.quit = nil; l.handler.Close()
CloseFinish ==
    /\ UNCHANGED extraVars
    /\ Live
    /\ ctl.pc = "c_wait"
    /\ WaitDone(ctl.l)
    /\ quit' = [quit EXCEPT ![ctl.l] = "nil"]
    /\ handler' = [handler EXCEPT ![ctl.l].closes = @ + 1,
                                  ![ctl.l].closedAt =
                                      IF handler[ctl.l].closes = 0
                                      THEN Len(handler[ctl.l].writes) ELSE @]
    /\ hist' = [hist EXCEPT ![ctl.l].closeRet = TRUE]
    /\ ctl' = CloseReturn
    /\ UNCHANGED <<defLoger, nLoggers, level, closed, msg, bufs, wg, run, calls,
                   nCalls, nextBuf, panicked>>

(* ------------------- init, SetLevel, SetLogFile ----------------------- *)
\* init(): SetLevel(LevelAll)
PkgInit ==
    /\ UNCHANGED extraVars
    /\ ~panicked
    /\ ctl.pc = "init"
    /\ level' = [level EXCEPT ![defLoger] = LevelAll]
    /\ ctl' = [ctl EXCEPT !.pc = "idle"]
    /\ hist' = [hist EXCEPT ![defLoger].levelSet = @ + 1,
                            ![defLoger].lastSet = LevelAll]
    /\ UNCHANGED <<defLoger, nLoggers, closed, quit, msg, bufs, wg, run, handler,
                   calls, nCalls, nextBuf, panicked>>

\* the package as first declared has no init(): main starts with defLoger as
\* New left it
PkgStart ==
    /\ UNCHANGED extraVars
    /\ ~panicked
    /\ ctl.pc = "init"
    /\ ctl' = [ctl EXCEPT !.pc = "idle"]
    /\ UNCHANGED <<defLoger, nLoggers, logVars, calls, nCalls, nextBuf, hist,
                   panicked>>

\* l.Level()
Level(l) == level[l]

\* SetLevel(m): defLoger.SetLevel(m)
SetLevel(m) ==
    /\ UNCHANGED extraVars
    /\ Live
    /\ ctl.pc = "idle"
    /\ ctl.ops < MaxCtlOps
    /\ level' = [level EXCEPT ![defLoger] = m]
    /\ ctl' = [ctl EXCEPT !.ops = @ + 1]
    /\ hist' = [hist EXCEPT ![defLoger].levelSet = @ + 1,
                            ![defLoger].lastSet = m,
                            ![defLoger].setAfterExit = @ \/ run[defLoger].pc = "done"]
    /\ UNCHANGED <<defLoger, nLoggers, closed, quit, msg, bufs, wg, run, handler,
                   calls, nCalls, nextBuf, panicked>>

\* a SetLogFile that does not close the previous default Logger
SetLogFileEntryNoClose(arg) ==
    [ctl EXCEPT !.pc = "s_handler", !.op = "SetLogFile", !.l = defLoger, !.arg = arg,
                !.ops = @ + 1]

\* SetLogFile(logFile) is entered: if defLoger != nil { defLoger.Close() }
SetLogFileEntry(arg) ==
    [ctl EXCEPT !.pc = "c_enter", !.op = "SetLogFile", !.l = defLoger, !.arg = arg,
                !.ops = @ + 1]

\* SetLogFile(logFile); arg says whether logFile is "", a path the rotating-file
\* handler can open, or one it cannot
CallSetLogFile(arg) ==
    /\ UNCHANGED extraVars
    /\ Live
    /\ ctl.pc = "idle"
    /\ ctl.ops < MaxCtlOps
    /\ arg # "bad" => nLoggers < MaxLoggers
    /\ ctl' = SetLogFileEntry(arg)
    /\ UNCHANGED <<defLoger, nLoggers, logVars, calls, nCalls, nextBuf, hist,
                   panicked>>

\* NewTimeRotatingFileHandler failed: fmt.Println(err.Error()); return
SetLogFileFail ==
    /\ UNCHANGED extraVars
    /\ Live
    /\ ctl.pc = "s_handler"
    /\ ctl.arg = "bad"
    /\ ctl' = [ctl EXCEPT !.pc = "idle", !.op = "none", !.l = 0, !.arg = "none"]
    /\ UNCHANGED <<defLoger, nLoggers, logVars, calls, nCalls, nextBuf, hist,
                   panicked>>

\* defLoger = NewDefault(h), h the file handler or newStdHandler()
SetLogFileInstall ==
    /\ UNCHANGED extraVars
    /\ Live
    /\ ctl.pc = "s_handler"
    /\ ctl.arg # "bad"
    /\ New(nLoggers + 1)
    /\ nLoggers' = nLoggers + 1
    /\ defLoger' = nLoggers + 1
    /\ ctl' = [ctl EXCEPT !.pc = "idle", !.op = "none", !.l = 0, !.arg = "none"]
    /\ UNCHANGED <<calls, nCalls, nextBuf, hist, panicked>>

(* ------------------------------- system ------------------------------- *)
\* the process: producers, the dispatch goroutines, and a controlling goroutine
\* that closes and replaces the default Logger
Next ==
    \/ PkgInit
    \/ \E S \in Severities : Emit(S)
    \/ \E c \in calls : Pop(c)
    \/ \E c \in calls : Send(c)
    \/ \E l \in Ids : RunRecv(l)
    \/ \E l \in Ids, err \in BOOLEAN : RunWriteRet(l, err)
    \/ \E l \in Ids : RunPutBuf(l)
    \/ \E l \in Ids : RunQuit(l)
    \/ CallClose
    \/ CloseSignal
    \/ CloseFinish
    \/ \E arg \in FileArgs : CallSetLogFile(arg)
    \/ SetLogFileFail
    \/ SetLogFileInstall

Spec == Init /\ [][Next]_vars

\* the process while the default Logger is running: producers, the dispatch
\* goroutine, and a controlling goroutine that sets the level mask
NextLevel ==
    \/ PkgInit
    \/ PkgStart
    \/ \E S \in Severities : Emit(S)
    \/ \E c \in calls : Pop(c)
    \/ \E c \in calls : Send(c)
    \/ \E l \in Ids : RunRecv(l)
    \/ \E l \in Ids, err \in BOOLEAN : RunWriteRet(l, err)
    \/ \E l \in Ids : RunPutBuf(l)
    \/ \E m \in Masks : SetLevel(m)

SpecLevel == Init /\ [][NextLevel]_vars

\* the life of one default Logger: producers, the dispatch goroutine, and a
\* controlling goroutine that closes the Logger and sets the level mask to
\* nothing, to what New sets, or to everything
LifeMasks == {0, LevelInfo, LevelAll}

NextLife ==
    \/ PkgInit
    \/ \E S \in Severities : Emit(S)
    \/ \E c \in calls : Pop(c)
    \/ \E c \in calls : Send(c)
    \/ \E l \in Ids : RunRecv(l)
    \/ \E l \in Ids, err \in BOOLEAN : RunWriteRet(l, err)
    \/ \E l \in Ids : RunPutBuf(l)
    \/ \E l \in Ids : RunQuit(l)
    \/ \E m \in LifeMasks : SetLevel(m)
    \/ CallClose
    \/ CloseSignal
    \/ CloseFinish

SpecLife == Init /\ [][NextLife]_vars

(* ------------------------- Close under fairness ----------------------- *)
\* the default Logger with producers, its dispatch goroutine and a controlling
\* goroutine that calls Close()
NextClose ==
    \/ PkgInit
    \/ \E S \in Severities : Emit(S)
    \/ \E c \in calls : Pop(c)
    \/ \E c \in calls : Send(c)
    \/ \E l \in Ids : RunRecv(l)
    \/ \E l \in Ids, err \in BOOLEAN : RunWriteRet(l, err)
    \/ \E l \in Ids : RunPutBuf(l)
    \/ \E l \in Ids : RunQuit(l)
    \/ CallClose
    \/ CloseSignal
    \/ CloseFinish

\* the scheduler lets every goroutine that can take a step take one: the run
\* goroutine receives, Handler.Write returns, putBuf runs, the quit case of the
\* select is taken, and the goroutine inside Close goes on
Fairness ==
    /\ \A l \in Ids : WF_vars(RunRecv(l))
    /\ \A l \in Ids : WF_vars(\E err \in BOOLEAN : RunWriteRet(l, err))
    /\ \A l \in Ids : WF_vars(RunPutBuf(l))
    /\ \A l \in Ids : WF_vars(RunQuit(l))
    /\ WF_vars(CloseSignal)
    /\ WF_vars(CloseFinish)

SpecFair == Init /\ [][NextClose]_vars /\ Fairness

(* -------------------------- concurrent Close -------------------------- *)
\* what the steps of a concurrent Close caller leave alone
nonCloseVars ==
    <<defLoger, nLoggers, level, msg, bufs, wg, run, calls, ctl, nCalls, nextBuf,
      store, clients, rendered>>

\* goroutine t calls Close(): defLoger.Close(); each goroutine calls it once
CloserCall(t) ==
    /\ Live
    /\ closers[t].pc = "idle"
    /\ closers[t].calls = 0
    /\ closers' = [closers EXCEPT ![t].pc = "check", ![t].l = defLoger, ![t].calls = 1]
    /\ hist' = [hist EXCEPT ![defLoger].closeCalls = @ + 1]
    /\ UNCHANGED <<closed, quit, handler, panicked, nonCloseVars>>

\* if l.closed { return }: l.closed is read with no lock held
CloserCheck(t) ==
    /\ Live
    /\ closers[t].pc = "check"
    /\ closers' = [closers EXCEPT ![t] =
                      IF CloseAlready(closers[t].l)
                      THEN [@ EXCEPT !.pc = "idle",
                                     !.early = run[closers[t].l].pc # "done"]
                      ELSE [@ EXCEPT !.pc = "mark"]]
    /\ UNCHANGED <<closed, quit, handler, hist, panicked, nonCloseVars>>

\* l.closed = true
CloserMark(t) ==
    /\ Live
    /\ closers[t].pc = "mark"
    /\ closed' = [closed EXCEPT ![closers[t].l] = TRUE]
    /\ closers' = [closers EXCEPT ![t].pc = "signal"]
    /\ UNCHANGED <<quit, handler, hist, panicked, nonCloseVars>>

\* close(l.quit): panics when l.quit is closed already, or nil
CloserSignal(t) ==
    /\ Live
    /\ closers[t].pc = "signal"
    /\ LET l == closers[t].l
       IN IF quit[l] = "open"
          THEN /\ quit' = [quit EXCEPT ![l] = "closed"]
               /\ hist' = [hist EXCEPT ![l].signals = @ + 1,
                                       ![l].atQuit = Len(hist[l].enq),
                                       ![l].queuedAtQuit = Len(msg[l])]
               /\ closers' = [closers EXCEPT ![t].pc = "wait"]
               /\ UNCHANGED panicked
          ELSE /\ panicked' = TRUE
               /\ UNCHANGED <<quit, hist, closers>>
    /\ UNCHANGED <<closed, handler, nonCloseVars>>

\* l.wg.Wait() returns; l.quit = nil
CloserWait(t) ==
    /\ Live
    /\ closers[t].pc = "wait"
    /\ WaitDone(closers[t].l)
    /\ quit' = [quit EXCEPT ![closers[t].l] = "nil"]
    /\ closers' = [closers EXCEPT ![t].pc = "hclose"]
    /\ UNCHANGED <<closed, handler, hist, panicked, nonCloseVars>>

\* l.handler.Close(); Close returns
CloserHandlerClose(t) ==
    /\ Live
    /\ closers[t].pc = "hclose"
    /\ LET l == closers[t].l
       IN /\ handler' = [handler EXCEPT ![l].closes = @ + 1,
                                        ![l].closedAt = IF handler[l].closes = 0
                                                        THEN Len(handler[l].writes) ELSE @]
          /\ hist' = [hist EXCEPT ![l].closeRet = TRUE]
    /\ closers' = [closers EXCEPT ![t].pc = "idle"]
    /\ UNCHANGED <<closed, quit, panicked, nonCloseVars>>

\* the default Logger with producers, its dispatch goroutine, and goroutines
\* that each call Close()
NextCC ==
    \/ PkgInit
    \/ \E S \in Severities : Emit(S)
    \/ \E c \in calls : Pop(c)
    \/ \E c \in calls : Send(c)
    \/ \E l \in Ids : RunRecv(l)
    \/ \E l \in Ids, err \in BOOLEAN : RunWriteRet(l, err)
    \/ \E l \in Ids : RunPutBuf(l)
    \/ \E l \in Ids : RunQuit(l)
    \/ \E t \in Closers : CloserCall(t)
    \/ \E t \in Closers : CloserCheck(t)
    \/ \E t \in Closers : CloserMark(t)
    \/ \E t \in Closers : CloserSignal(t)
    \/ \E t \in Closers : CloserWait(t)
    \/ \E t \in Closers : CloserHandlerClose(t)

SpecCC == Init /\ [][NextCC]_vars

(* -------------------------------- cache ------------------------------- *)
\* what the cache actions leave alone
nonCacheVars ==
    <<defLoger, nLoggers, logVars, calls, ctl, nCalls, nextBuf, hist, panicked,
      closers, rendered>>

\* c.Set(key, v, expires) on the key while it is not in Redis
CacheSet(v) ==
    /\ ~store.present
    /\ store' = [present |-> TRUE, val |-> v, base |-> v, added |-> 0]
    /\ UNCHANGED <<clients, nonCacheVars>>

\* goroutine k calls c.Increment(key, n)
CallIncrement(k, n) ==
    /\ clients[k].pc = "idle"
    /\ clients[k].done < MaxCallsEach
    /\ clients' = [clients EXCEPT ![k] = [IdleClient EXCEPT !.pc = "i_get", !.op = "inc",
                                                           !.n = n, !.done = clients[k].done]]
    /\ UNCHANGED <<store, nonCacheVars>>

\* val, err := conn.Do("GET", key); if val == nil { return 0, ErrCacheMiss }
IncGet(k) ==
    /\ clients[k].pc = "i_get"
    /\ clients' = [clients EXCEPT ![k] =
                      IF store.present
                      THEN [@ EXCEPT !.pc = "i_set", !.cur = store.val]
                      ELSE [@ EXCEPT !.pc = "idle", !.miss = TRUE, !.done = @ + 1]]
    /\ UNCHANGED <<store, nonCacheVars>>

\* sum := currentVal + int64(delta); conn.Do("SET", key, sum)
IncStored(k) == clients[k].cur + clients[k].n

\* conn.Do("SET", key, sum); return uint64(sum), nil
IncSet(k) ==
    /\ clients[k].pc = "i_set"
    /\ store' = [store EXCEPT !.present = TRUE, !.val = IncStored(k),
                              !.added = @ + clients[k].n]
    /\ clients' = [clients EXCEPT ![k].pc = "idle", ![k].ret = IncStored(k),
                                  ![k].done = @ + 1]
    /\ UNCHANGED nonCacheVars

\* goroutine k calls c.Decrement(key, n)
CallDecrement(k, n) ==
    /\ clients[k].pc = "idle"
    /\ clients[k].done < MaxCallsEach
    /\ clients' = [clients EXCEPT ![k] = [IdleClient EXCEPT !.pc = "d_exists", !.op = "dec",
                                                           !.n = n, !.done = clients[k].done]]
    /\ UNCHANGED <<store, nonCacheVars>>

\* existed, err := exists(conn, key); if !existed { return 0, ErrCacheMiss }
DecExists(k) ==
    /\ clients[k].pc = "d_exists"
    /\ clients' = [clients EXCEPT ![k] =
                      IF store.present
                      THEN [@ EXCEPT !.pc = "d_get"]
                      ELSE [@ EXCEPT !.pc = "idle", !.miss = TRUE, !.done = @ + 1]]
    /\ UNCHANGED <<store, nonCacheVars>>

\* currentVal, err := redis.Int64(conn.Do("GET", key))
DecGet(k) ==
    /\ clients[k].pc = "d_get"
    /\ clients' = [clients EXCEPT ![k].pc = "d_decr", ![k].cur = store.val]
    /\ UNCHANGED <<store, nonCacheVars>>

\* if delta > uint64(currentVal) { DECRBY key currentVal } else { DECRBY key delta }
\* (currentVal >= 0 in every state of this model)
DecAmount(k) ==
    IF clients[k].n > clients[k].cur THEN clients[k].cur ELSE clients[k].n

\* tempint, err := redis.Int64(conn.Do("DECRBY", key, ...)); return uint64(tempint), err
DecBy(k) ==
    /\ clients[k].pc = "d_decr"
    /\ store' = [store EXCEPT !.present = TRUE, !.val = @ - DecAmount(k)]
    /\ clients' = [clients EXCEPT ![k].pc = "idle", ![k].ret = store.val - DecAmount(k),
                                  ![k].done = @ + 1]
    /\ UNCHANGED nonCacheVars

\* the values the key is set to and the amounts passed
Values == 0..MaxVal
Amounts == 1..MaxVal

\* goroutines decrementing one counter
NextDec ==
    \/ \E v \in Values : CacheSet(v)
    \/ \E k \in Clients, n \in Amounts : CallDecrement(k, n)
    \/ \E k \in Clients : DecExists(k)
    \/ \E k \in Clients : DecGet(k)
    \/ \E k \in Clients : DecBy(k)

SpecDec == Init /\ [][NextDec]_vars

\* goroutines incrementing one counter
NextInc ==
    \/ \E v \in Values : CacheSet(v)
    \/ \E k \in Clients, n \in Amounts : CallIncrement(k, n)
    \/ \E k \in Clients : IncGet(k)
    \/ \E k \in Clients : IncSet(k)

SpecInc == Init /\ [][NextInc]_vars

(* ------------------------------ rendering ----------------------------- *)
\* the text of a record is a sequence of tokens: "TIME" is
\* time.Now().Format(TimeFormat), "green", "yellow", "red" and "reset" are the
\* color escape codes, "up" and "erase" the cursor escape codes "\033[1A" and
\* "\033[K", and a path, a line number and a message are sequences of characters
ColorCodes == {"green", "yellow", "red", "reset"}

\* what runtime.Caller reports: the file, as characters, and the line
CallerFiles == {<<"m">>, <<"/", "m">>, <<"/", "a", "/", "m">>, <<"a", "/", "b", "/", "m">>}
CallerLines == {0, 7, 42}

\* fmt.Sprintf(format, v...): empty, without and with a final newline
Formatted == {<<>>, <<"x">>, <<"x", "\n">>}

\* levelName(level): the first of Debug, Info, Warn, Error whose bit is set
levelName(S) ==
    IF BitAnd(S, LevelDebug) = LevelDebug THEN <<"DEBUG">>
    ELSE IF BitAnd(S, LevelInfo) = LevelInfo THEN <<"INFO">>
    ELSE IF BitAnd(S, LevelWarn) = LevelWarn THEN <<"WARN">>
    ELSE IF BitAnd(S, LevelError) = LevelError THEN <<"ERROR">>
    ELSE <<>>

\* l.colorStart(level): nothing for Debug, GREEN, YELLOW, RED
colorStart(S) ==
    IF S = LevelInfo THEN <<"green">>
    ELSE IF S = LevelWarn THEN <<"yellow">>
    ELSE IF S = LevelError THEN <<"red">>
    ELSE <<>>

\* l.colorStop(level): nothing for Debug, NONE for the others
colorStop(S) == IF S \in {LevelInfo, LevelWarn, LevelError} THEN <<"reset">> ELSE <<>>

\* l.colorLevel(level): color.GreenString, YellowString, RedString of
\* levelName(level) for Info, Warn, Error; the case of Debug is empty, and the
\* function then returns ""
colorLevel(S) ==
    IF S = LevelInfo THEN <<"green">> \o levelName(S) \o <<"reset">>
    ELSE IF S = LevelWarn THEN <<"yellow">> \o levelName(S) \o <<"reset">>
    ELSE IF S = LevelError THEN <<"red">> \o levelName(S) \o <<"reset">>
    ELSE <<>>

\* the loop of Output over file: i runs from len(file)-1 down to 1 (0-based) and
\* at the first '/' keeps file[i+1:]
RECURSIVE BaseFrom(_, _)
BaseFrom(file, i) ==
    IF i <= 1 THEN file
    ELSE IF file[i] = "/" THEN SubSeq(file, i + 1, Len(file))
    ELSE BaseFrom(file, i - 1)

BaseName(file) == BaseFrom(file, Len(file))

\* strconv.AppendInt(buf, int64(line), 10) for line >= 0
RECURSIVE AppendInt(_)
AppendInt(n) ==
    LET d == <<"0", "1", "2", "3", "4", "5", "6", "7", "8", "9">>[(n % 10) + 1]
    IN IF n < 10 THEN <<d>> ELSE AppendInt(n \div 10) \o <<d>>

\* file:[line] - , with "???" and 0 when runtime.Caller fails
CallSite(ok, file, line) ==
    (IF ok THEN BaseName(file) ELSE <<"?", "?", "?">>)
    \o <<":[">> \o AppendInt(IF ok THEN line ELSE 0) \o <<"] - ">>

\* the newline Output adds when the message does not end with one
FinalNewline(str) ==
    IF Len(str) = 0 \/ str[Len(str)] # "\n" THEN <<"\n">> ELSE <<>>

\* Output(ln, callDepth, level, format, v...) of the first declaration of the
\* package: the text it sends on l.msg
OutputText1(ln, S, ok, file, line, str) ==
    (IF ln THEN <<"up">> ELSE <<>>)
    \o <<"TIME", " - ">>
    \o colorStart(S) \o levelName(S) \o colorStop(S)
    \o <<" - ">>
    \o CallSite(ok, file, line)
    \o str
    \o (IF ln THEN <<"erase">> ELSE <<>>)
    \o FinalNewline(str)

\* Output(callDepth, level, format, v...) of the second declaration of the
\* package: the text it sends on l.msg
OutputText2(S, ok, file, line, str) ==
    <<"TIME", " - ">>
    \o colorLevel(S)
    \o <<" - ">>
    \o CallSite(ok, file, line)
    \o str
    \o FinalNewline(str)

\* a call of the first Output renders its record
Render1(ln, S, ok, file, line, str) ==
    /\ rendered' = [ver |-> 1, sev |-> S, text |-> OutputText1(ln, S, ok, file, line, str)]
    /\ UNCHANGED <<defLoger, nLoggers, logVars, calls, ctl, nCalls, nextBuf, hist,
                   panicked, closers, store, clients>>

\* a call of the second Output renders its record
Render2(S, ok, file, line, str) ==
    /\ rendered' = [ver |-> 2, sev |-> S, text |-> OutputText2(S, ok, file, line, str)]
    /\ UNCHANGED <<defLoger, nLoggers, logVars, calls, ctl, nCalls, nextBuf, hist,
                   panicked, closers, store, clients>>

\* records rendered one after the other, at any severity, from any call site
NextRender ==
    \/ \E ln \in BOOLEAN, S \in Severities, ok \in BOOLEAN, file \in CallerFiles,
          line \in CallerLines, str \in Formatted :
            Render1(ln, S, ok, file, line, str)
    \/ \E S \in Severities, ok \in BOOLEAN, file \in CallerFiles,
          line \in CallerLines, str \in Formatted :
            Render2(S, ok, file, line, str)

SpecRender == Init /\ [][NextRender]_vars

(* ------------------------------ helpers ------------------------------- *)
\* the records that a sequence of buffers holds, in order
RECURSIVE Flatten(_)
Flatten(bs) == IF bs = <<>> THEN <<>> ELSE Head(bs).data \o Flatten(Tail(bs))

Range(s) == {s[i] : i \in 1..Len(s)}
NoDup(s) == \A i, j \in 1..Len(s) : s[i] = s[j] => i = j
Written(l) == Flatten(handler[l].writes)
CallsOn(l) == {c \in calls : c.l = l}
Constructed == 1..nLoggers

\* l is running and at rest: nothing queued, no Output in progress, run waiting
Quiescent(l) ==
    /\ run[l].pc = "select"
    /\ msg[l] = <<>>
    /\ CallsOn(l) = {}

TypeOK ==
    /\ defLoger \in Constructed
    /\ nLoggers \in Ids
    /\ \A l \in Ids : level[l] \in Masks /\ Len(msg[l]) <= QueueCap

(* ------------------------------- claims ------------------------------- *)
\* bit S (a single-bit severity) is set in the mask L
SeverityEnabled(L, S) == (L \div S) % 2 = 1

\* the records of l that are inside an Output call
InOutput(l) == {c.rec : c \in CallsOn(l)}

\* an Output call at severity S goes on to acquire a buffer exactly when S is
\* enabled in the Logger's mask, and otherwise touches nothing
C1_FilterStep ==
    \A S \in Severities : Emit(S) =>
        IF SeverityEnabled(level[defLoger], S)
        THEN /\ \E c \in calls' : /\ c \notin calls
                                  /\ c.l = defLoger
                                  /\ c.pc = "pop"
                                  /\ calls' = calls \cup {c}
                                  /\ hist'[defLoger].passed = hist[defLoger].passed \cup {c.rec}
             /\ UNCHANGED <<bufs, msg, handler, nextBuf>>
        ELSE UNCHANGED <<calls, bufs, msg, handler, nextBuf, hist>>

\* no record is written twice, only records that passed are written, and on a
\* Logger at rest every record that passed has been written
C1_Delivery ==
    \A l \in Constructed :
        /\ NoDup(Written(l))
        /\ Range(Written(l)) \subseteq hist[l].passed
        /\ Quiescent(l) =>
               /\ Range(Written(l)) = hist[l].passed
               /\ Len(handler[l].writes) = Cardinality(hist[l].passed)

\* C1: severity filtering. On a running Logger with any level mask L, Output at
\* severity S leads to exactly one Handler write if (L & S) == S, and to no
\* write, no buffer acquired and nothing enqueued otherwise.
C1_SeverityFilter == [](C1_Delivery) /\ [][C1_FilterStep]_vars

\* the mask is Warn|Error, two calls were made, the first was filtered out and
\* the second was written: exactly one write
C1_Witness ==
    /\ level[1] = LevelWarn + LevelError
    /\ ctl.ops = 1
    /\ nCalls = 2
    /\ hist[1].passed = {2}
    /\ Written(1) = <<2>>
    /\ Quiescent(1)

C3_Drain ==
    \A l \in Constructed :
        run[l].pc = "done" =>
            /\ Len(handler[l].writes) >= hist[l].atQuit
            /\ SubSeq(Written(l), 1, hist[l].atQuit)
                   = SubSeq(hist[l].enq, 1, hist[l].atQuit)
            /\ (hist[l].closeRet /\ Len(hist[l].enq) = hist[l].atQuit) =>
                   /\ Len(handler[l].writes) = hist[l].atQuit
                   /\ Written(l) = hist[l].enq

\* Close found a record still queued when it signalled, and has returned with
\* all K records written
C3_Witness ==
    \E l \in Constructed :
        /\ hist[l].closeRet
        /\ hist[l].queuedAtQuit >= 1
        /\ Len(hist[l].enq) = hist[l].atQuit
        /\ Len(handler[l].writes) = hist[l].atQuit

\* C4: no write after close. Once Handler.Close has been invoked, or Logger.Close
\* has returned, run has exited, no Write is in progress and the Handler has
\* received no Write since.
C4_NoWriteAfterClose ==
    \A l \in Ids :
        (handler[l].closes > 0 \/ hist[l].closeRet) =>
            /\ run[l].pc = "done"
            /\ handler[l].busy = 0
            /\ Len(handler[l].writes) = handler[l].closedAt

\* Close has returned, one record was written before and a later emit has left
\* a record in the channel
C4_Witness ==
    \E l \in Constructed :
        /\ hist[l].closeRet
        /\ Len(handler[l].writes) >= 1
        /\ Len(msg[l]) >= 1

\* C5: blocking backpressure without drops. The channel never holds more than
\* its capacity; a record that passed the filter is inside its Output call or
\* has been enqueued (no Output returns without enqueueing); on a Logger at
\* rest M passing emits have produced M writes.
C5_Backpressure ==
    \A l \in Constructed :
        /\ Len(msg[l]) <= QueueCap
        /\ hist[l].passed = InOutput(l) \cup Range(hist[l].enq)
        /\ InOutput(l) \cap Range(hist[l].enq) = {}
        /\ Quiescent(l) => Len(handler[l].writes) = Cardinality(hist[l].passed)

\* a producer is blocked on the full channel of a running Logger
C5_Witness ==
    \E l \in Constructed : \E c \in CallsOn(l) :
        /\ c.pc = "send"
        /\ Len(msg[l]) = QueueCap
        /\ ~closed[l]
        /\ ~ENABLED Send(c)

\* C6: Close is idempotent. For Close calls made one after another, the quit
\* channel is closed once, the Handler is closed once, nothing panics, and a
\* call on a closed Logger changes nothing.
C6_CloseIdempotent ==
    /\ ~panicked
    /\ \A l \in Ids :
        /\ hist[l].signals <= 1
        /\ handler[l].closes <= 1
        /\ (hist[l].closeCalls >= 1 /\ ctl.l # l) =>
               /\ hist[l].signals = 1
               /\ handler[l].closes = 1
               /\ closed[l]

\* a second Close call on the same Logger has returned
C6_Witness ==
    \E l \in Constructed :
        /\ hist[l].closeCalls >= 2
        /\ ctl.pc = "idle"
        /\ handler[l].closes = 1

\* C7: fallback on handler-initialization failure. When SetLogFile returns
\* because the rotating-file handler could not be built, the default Logger is
\* a running instance with a live dispatch loop.
C7_FallbackAfterFailure ==
    [][SetLogFileFail =>
          /\ ~closed'[defLoger']
          /\ run'[defLoger'].pc \in {"select", "write", "putBuf"}]_vars

\* C8 as stated: once a record is written through a newer default Logger, every
\* record enqueued on a replaced instance has been written to its Handler.
C8_OldRecordsAllWritten ==
    \A l \in Constructed :
        (l # defLoger /\ \E n \in Constructed : n > l /\ Len(handler[n].writes) > 0)
            => Written(l) = hist[l].enq

\* a replaced instance is closed: run has exited, its Handler is closed once, and
\* the records enqueued before its shutdown signal were written; the handle
\* points at the newest instance
C8_Replaced ==
    /\ defLoger = nLoggers
    /\ \A l \in Constructed :
        l # defLoger =>
            /\ closed[l]
            /\ run[l].pc = "done"
            /\ handler[l].closes = 1
            /\ Len(handler[l].writes) >= hist[l].atQuit
            /\ SubSeq(Written(l), 1, hist[l].atQuit)
                   = SubSeq(hist[l].enq, 1, hist[l].atQuit)

\* the new instance is built when every earlier one is closed with its Handler
\* closed, and is installed running
C8_InstallStep ==
    SetLogFileInstall =>
        /\ \A l \in Constructed : closed[l] /\ run[l].pc = "done" /\ handler[l].closes = 1
        /\ defLoger' # defLoger
        /\ ~closed'[defLoger']
        /\ run'[defLoger'].pc = "select"
        /\ handler'[defLoger'].writes = <<>>

\* C8 (amended): a successful SetLogFile closes the previous default Logger
\* before it constructs and installs the new one; the records enqueued on the
\* old instance before its shutdown signal are written to the old Handler
\* before any record is written through the new one, and the handle then points
\* at the new, running instance.
C8_ReplaceClosesFirst == [](C8_Replaced) /\ [][C8_InstallStep]_vars

\* the default Logger was replaced after draining a record, and a record has
\* been written through the new instance
C8_Witness ==
    /\ nLoggers = 2
    /\ hist[1].atQuit >= 1
    /\ Len(handler[1].writes) = hist[1].atQuit
    /\ Len(handler[2].writes) >= 1

\* C9: single writer. Each constructed Logger has had exactly one dispatch
\* goroutine started, only that goroutine calls Handler.Write, and at most one
\* Write is in progress.
C9_SingleWriter ==
    \A l \in Ids :
        /\ run[l].started = (IF l \in Constructed THEN 1 ELSE 0)
        /\ handler[l].writers \subseteq {RunThread(l)}
        /\ handler[l].busy <= 1
        /\ handler[l].busy = 1 <=> run[l].pc = "write"

\* run is inside Handler.Write while a producer is inside Output, about to send
C9_Witness ==
    \E l \in Constructed : \E c \in CallsOn(l) :
        /\ handler[l].busy = 1
        /\ c.pc = "send"
        /\ handler[l].writers = {RunThread(l)}

\* run exits only after the quit signal, and a Logger at rest has written all
\* that was enqueued, whether or not a Write failed
C10_StillRunning ==
    \A l \in Constructed :
        /\ run[l].pc = "done" => hist[l].signals >= 1
        /\ Quiescent(l) => Written(l) = hist[l].enq

\* a failed Write changes nothing but the Handler: run goes on to putBuf with the
\* same buffer, no Output call sees it, nothing panics; and putBuf puts the
\* buffer on the free list when there is room
C10_ErrorStep ==
    \A l \in Ids :
        /\ RunWriteRet(l, TRUE) =>
               /\ run'[l].pc = "putBuf"
               /\ run'[l].msg = run[l].msg
               /\ UNCHANGED <<calls, msg, bufs, wg, hist, panicked>>
        /\ (run[l].pc = "putBuf" /\ run'[l].pc # "putBuf" /\ Len(bufs[l]) < PoolCap) =>
               /\ Len(bufs'[l]) = Len(bufs[l]) + 1
               /\ bufs'[l][Len(bufs'[l])].id = run[l].msg.id

\* C10: Handler write failures are swallowed. A Write that returns an error
\* does not stop run or reach a caller; the buffer still goes back to the pool
\* and later records are still passed to Handler.Write.
C10_WriteErrorSwallowed == [](C10_StillRunning) /\ [][C10_ErrorStep]_vars

\* the first Write failed and the next record was passed to Write all the same
C10_Witness ==
    \E l \in Constructed :
        /\ handler[l].errAt = 1
        /\ Len(handler[l].writes) = 2
        /\ Len(bufs[l]) = 1

(* --------------------------------- C13 -------------------------------- *)
\* the lifecycle state of a Logger whose dispatch goroutine is r and whose quit
\* channel is q
LifeOf(r, q) ==
    IF r.pc = "none" THEN "Unbuilt"
    ELSE IF r.pc = "done" THEN "Closed"
    ELSE IF q = "open" THEN "Running"
    ELSE "Draining"

\* C13: every Logger moves only along Running -> Draining -> Closed; its
\* dispatch loop returns only in Draining and only on seeing the queue empty;
\* once Closed, no emit, SetLevel or Close moves it again or restarts the loop
C13_Lifecycle ==
    [][\A l \in Ids :
         LET a == LifeOf(run[l], quit[l])
             b == LifeOf(run'[l], quit'[l])
         IN /\ \/ a = b
               \/ a = "Unbuilt" /\ b = "Running"
               \/ a = "Running" /\ b = "Draining"
               \/ a = "Draining" /\ b = "Closed"
            /\ a # "Closed" /\ b = "Closed" => a = "Draining" /\ Len(msg[l]) = 0
            /\ a # b /\ b = "Draining" => CloseSignal
            /\ a = "Closed" => run'[l] = run[l] /\ wg'[l] = wg[l]]_vars

\* a Closed Logger on which, after its loop returned and Close returned, a
\* record was queued and the level was set
C13_Witness ==
    /\ LifeOf(run[1], quit[1]) = "Closed"
    /\ Len(msg[1]) > 0
    /\ hist[1].setAfterExit
    /\ hist[1].closeRet
    /\ ctl.pc = "idle"

(* --------------------------------- C14 -------------------------------- *)
\* the places where the buffer with identity i is: a slot of a free list, an
\* Output call rendering or sending it, a slot of a channel, a run goroutine
\* writing it or about to return it
Places(i) ==
    UNION {{<<"free", l, k>> : k \in {j \in 1..Len(bufs[l]) : bufs[l][j].id = i}} :
           l \in Ids}
    \cup {<<"emit", c.rec, 0>> : c \in {d \in calls : d.buf.id = i}}
    \cup UNION {{<<"queue", l, k>> : k \in {j \in 1..Len(msg[l]) : msg[l][j].id = i}} :
                l \in Ids}
    \cup {<<"run", l, 0>> : l \in {k \in Ids : run[k].msg.id = i}}

\* the buffers that a full pool let go
Dropped == UNION {hist[l].dropped : l \in Ids}

\* C14: every buffer is in exactly one place (free list, one Output call, the
\* channel, or the dispatch loop), and a buffer the pool let go is in none: no
\* buffer is free while queued or being written, none is held by two calls
C14_ExclusiveOwnership ==
    \A i \in 1..nextBuf :
        IF i \in Dropped THEN Places(i) = {} ELSE Cardinality(Places(i)) = 1

\* the second record is being sent in the buffer that carried the first one,
\* taken back from the free list
C14_Witness ==
    \E c \in calls : c.pc = "send" /\ c.rec = 2 /\ c.buf.id = 1 /\ nextBuf = 1

(* --------------------------------- C15 -------------------------------- *)
\* the free list of every Logger holds at most maxBufPoolSize buffers, all of
\* length zero, so that the buffer popBuf would hand out has length zero
C15_PoolState ==
    \A l \in Ids :
        /\ Len(bufs[l]) <= PoolCap
        /\ \A k \in 1..Len(bufs[l]) : Len(bufs[l][k].data) = 0
        /\ Len(PopBufResult(l).data) = 0

\* a putBuf on a full free list leaves it as it was and lets the buffer go; a
\* putBuf on any other pushes the buffer, emptied, on top
C15_PutStep ==
    \A l \in Ids : RunPutBuf(l) =>
        IF Len(bufs[l]) >= PoolCap
        THEN /\ bufs'[l] = bufs[l]
             /\ \E i \in 1..nextBuf : i = run[l].msg.id /\ Places(i)' = {}
        ELSE bufs'[l] = Append(bufs[l], [id |-> run[l].msg.id, data |-> <<>>])

\* C15: after any interleaving of popBuf and putBuf the free list holds at most
\* maxBufPoolSize buffers, each of length zero; popBuf returns a buffer of
\* length zero; putBuf on a full free list changes nothing and drops the buffer
C15_PoolInvariant == [](C15_PoolState) /\ [][C15_PutStep]_vars

\* a putBuf found the free list full and dropped its buffer
C15_Witness ==
    \E l \in Ids : Len(bufs[l]) = PoolCap /\ hist[l].dropped # {}

(* --------------------------------- C18 -------------------------------- *)
\* s is a prefix of t
IsPrefix(s, t) == Len(s) <= Len(t) /\ SubSeq(t, 1, Len(s)) = s

\* C18: once Close has returned on a Logger, no step panics or makes its
\* Handler write; what is queued on it stays queued, in place, and an Output
\* call that finds l.msg full (1024 records pending) stays blocked in its send
C18_EmitOnClosed ==
    [][\A l \in Ids : hist[l].closeRet =>
          /\ panicked' = panicked
          /\ handler'[l].writes = handler[l].writes
          /\ handler'[l].busy = 0
          /\ IsPrefix(msg[l], msg'[l])
          /\ \A c \in CallsOn(l) :
                c.pc = "send" /\ Len(msg[l]) = QueueCap => c \in calls']_vars

\* on a Logger whose Close has returned with nothing ever written, the channel
\* is full of records sent since and one more Output call is blocked in its send
C18_Witness ==
    \E l \in Ids :
        /\ hist[l].closeRet
        /\ ~panicked
        /\ hist[l].atQuit = 0
        /\ handler[l].writes = <<>>
        /\ Len(msg[l]) = QueueCap
        /\ \E c \in CallsOn(l) : c.pc = "send"

(* --------------------------------- C19 -------------------------------- *)
\* a Logger on which SetLevel was never called has the mask Info, and at rest
\* all its records that passed the filter have been written
C19_Initial ==
    \A l \in Constructed : hist[l].levelSet = 0 =>
        /\ Level(l) = LevelInfo
        /\ Quiescent(l) => Range(Written(l)) = hist[l].passed

\* on such a Logger an Info call goes on to acquire a buffer, and a Debug, Warn
\* or Error call changes nothing
C19_EmitStep ==
    \A S \in Severities : hist[defLoger].levelSet = 0 /\ Emit(S) =>
        IF S = LevelInfo
        THEN /\ hist'[defLoger].passed = hist[defLoger].passed \cup {nCalls'}
             /\ \E c \in calls' : c.rec = nCalls' /\ c.l = defLoger /\ c \notin calls
        ELSE UNCHANGED <<calls, bufs, msg, handler, nextBuf, hist>>

\* a SetLevel(m) call on a Logger makes its Level() return m and leaves the
\* other Loggers, the channel, the pool, the lifecycle, the Handler and the
\* calls in progress as they were
C19_SetStep ==
    \A l \in Ids : hist'[l].levelSet # hist[l].levelSet =>
        /\ Level(l)' = hist'[l].lastSet
        /\ \A k \in Ids \ {l} : Level(k)' = Level(k)
        /\ UNCHANGED <<defLoger, msg, bufs, quit, closed, wg, run, handler, calls>>

\* C19: a constructed Logger has the level mask Info until SetLevel is called:
\* until then its Info emits are written and its Debug, Warn and Error emits
\* are filtered out; SetLevel(m) then Level() gives m and changes nothing else
C19_InitialLevel == [](C19_Initial) /\ [][C19_EmitStep /\ C19_SetStep]_vars

\* before any SetLevel call two emits were made on the default Logger: one was
\* filtered out, the other was written
C19_Witness ==
    /\ hist[1].levelSet = 0
    /\ nCalls = 2
    /\ Cardinality(hist[1].passed) = 1
    /\ Range(Written(1)) = hist[1].passed
    /\ Quiescent(1)

(* --------------------------------- C11 -------------------------------- *)
\* the label and the color of a severity
LabelOf(S) ==
    IF S = LevelDebug THEN "DEBUG" ELSE IF S = LevelInfo THEN "INFO"
    ELSE IF S = LevelWarn THEN "WARN" ELSE "ERROR"

ColorOf(S) ==
    IF S = LevelInfo THEN "green" ELSE IF S = LevelWarn THEN "yellow"
    ELSE IF S = LevelError THEN "red" ELSE "none"

\* the positions of the separator " - " in a text
SepAt(t) == {i \in 1..Len(t) : t[i] = " - "}

Min(I) == CHOOSE i \in I : \A j \in I : i <= j

\* the field between the separator that ends the timestamp and the one that
\* starts the call site
LabelField(t) ==
    LET a == Min(SepAt(t))
        b == Min(SepAt(t) \ {a})
    IN SubSeq(t, a + 1, b - 1)

\* C11: the record rendered at severity S carries the label of S between the
\* timestamp separator and the call-site field, wrapped in green for Info,
\* yellow for Warn, red for Error and bare for Debug, and has no color code
\* anywhere else
C11_LabelAndColor ==
    rendered.ver # 0 =>
        LET t == rendered.text
            S == rendered.sev
        IN /\ Cardinality(SepAt(t)) >= 2
           /\ LabelField(t) = IF S = LevelDebug THEN <<LabelOf(S)>>
                               ELSE <<ColorOf(S), LabelOf(S), "reset">>
           /\ Cardinality({i \in 1..Len(t) : t[i] \in ColorCodes})
                 = IF S = LevelDebug THEN 0 ELSE 2

(* --------------------------------- C12 -------------------------------- *)
\* C12: Decrement is capped at zero: on a counter holding v >= 0 a
\* Decrement(key, n) stores and returns max(v - n, 0), and after any
\* interleaving of Decrement calls the stored counter is not below 0
C12_CappedAtZero ==
    /\ store.present => store.val >= 0
    /\ \A k \in Clients :
          clients[k].op = "dec" /\ clients[k].pc = "idle" /\ ~clients[k].miss =>
              clients[k].ret >= 0

(* --------------------------------- C20 -------------------------------- *)
\* C20: Increment adds the given amount: once the Increment calls on an
\* existing counter have returned, it holds its initial value plus the sum of
\* their amounts; on a missing key Increment returns ErrCacheMiss and does not
\* create the key
C20_SumOfIncrements ==
    /\ (store.present /\ \A k \in Clients : clients[k].pc = "idle") =>
           store.val = store.base + store.added
    /\ \A k \in Clients : clients[k].miss => clients[k].ret = 0

(* --------------------------------- C16 -------------------------------- *)
\* C16: concurrent Close is safe: with several goroutines calling Close on one
\* Logger, nothing panics, l.quit is closed at most once and Handler.Close is
\* called at most once, both exactly once when a caller has returned, and no
\* caller returns before the dispatch loop has exited
C16_ConcurrentCloseSafe ==
    /\ ~panicked
    /\ \A l \in Ids : hist[l].signals <= 1 /\ handler[l].closes <= 1
    /\ \A t \in Closers :
          closers[t].calls = 1 /\ closers[t].pc = "idle" =>
              /\ ~closers[t].early
              /\ run[closers[t].l].pc = "done"
              /\ hist[closers[t].l].signals = 1
              /\ handler[closers[t].l].closes = 1

(* --------------------------------- C17 -------------------------------- *)
\* the controlling goroutine is inside l.Close()
InClose(l) == ctl.pc \in {"c_enter", "c_wait"} /\ ctl.l = l

\* C17: Close terminates: under fair scheduling, with every Handler.Write
\* returning and finitely many emits, every call of Close returns, and when it
\* has, the dispatch loop has exited and the Handler is closed
C17_CloseTerminates ==
    \A l \in Ids :
        InClose(l) ~> (~InClose(l) /\ run[l].pc = "done" /\ handler[l].closes >= 1)

\* Close has returned on a Logger whose channel was full when it was
\* signalled, with more records written than were queued then
C17_Witness ==
    /\ hist[1].closeRet
    /\ ctl.pc = "idle"
    /\ hist[1].queuedAtQuit = QueueCap
    /\ Len(handler[1].writes) > hist[1].queuedAtQuit
    /\ run[1].pc = "done"

====
